---- MODULE Spec2Model ----
(***************************************************************************)
(* Hierarchical document structure extractor.                              *)
(*                                                                         *)
(* The model follows src/pdf_parser_generalised.py (font role classifier,  *)
(* HeaderContext, line extraction with its dynamic tolerance, main) and    *)
(* src/pdf_parser_generalised1.py (the page state machine with the         *)
(* orphan-header commit).                                                  *)
(*                                                                         *)
(* A line's text is modelled by the number of the line in the document     *)
(* (every line has its own text); " ".join(buffer) is the sequence of the  *)
(* joined texts, "" is the empty sequence.                                 *)
(***************************************************************************)
EXTENDS Integers, Sequences, FiniteSets, TLC

VARIABLES
    frags,                    \* the document's text nodes, in document order: [font, len]
    body_size,                \* the body size generate_global_role_map reports
    role_map,                 \* global_roles: font id -> level (1..K) or Body
    pc,                       \* position in main(): "parse", "classify", "pages", "lines",
                              \* "done"; "returned" and "raised" when it ends early
    page_num,                 \* ctx.page_num
    headers,                  \* ctx.headers: level -> text
    prev_headers,             \* history: ctx.headers before the last step
    body_buffer,              \* locals of parse_page_to_data_rows
    header_buffer,
    active_header_role,
    header_has_body_content,
    rows,
    i,                        \* index of the next line of the page
    all_rows,                 \* rows collected by main()
    trace,                    \* history: the lines processed so far
    page_nodes,               \* the <text> nodes of one page, in document order
    lines,                    \* the result of extract_text_lines(page)
    y_tol,                    \* the result of calculate_dynamic_y_tolerance
    dom,                      \* the dominant height it used
    page_lines,               \* the lines of a page given as a whole: [font, gap, right, hyphen]
    rerun                     \* the result of a second run on the same input, if any

\* The state of the line extraction.
lvars == << page_nodes, lines, y_tol, dom >>

\* The state of the runs on a page given as a whole.
pvars == << page_lines, rerun >>

vars == << lvars, pvars, frags, body_size, role_map, pc, page_num, headers, prev_headers, body_buffer,
           header_buffer, active_header_role, header_has_body_content, rows, i,
           all_rows, trace >>

----------------------------------------------------------------------------
(* Bounds *)

MaxFrags == 3       \* text nodes of a document given to the classifier
MaxLen == 2         \* stripped length of a text node
MaxLines == 3       \* lines of a document given to the page state machine
MaxPages == 2       \* pages of a document
MaxLevel == 3       \* levels used when update_header is exercised alone
MaxPageFrags == 3   \* text nodes of a page given to extract_text_lines
MaxPageLines == 5   \* lines of a page given as a whole
MaxFillLines == 3   \* lines of a page given to the variant with the line-fill test
MaxBaseLines == 4   \* lines of a page given to the variant without the orphan rows

----------------------------------------------------------------------------
(* Program constants *)

Body == 0              \* the role 'body'
NoRole == 0            \* active_header_role = None
DefaultFontSize == 10  \* size used for a font id missing from font_map
BaseDefaultFontSize == 12  \* the same, in src/pdf_parser_generalised.py

----------------------------------------------------------------------------
(* Helpers *)

Range(s) == { s[k] : k \in DOMAIN s }

EmptyMap == [l \in {} |-> 0]

SeqsUpTo(S, n) == UNION { [1..k -> S] : k \in 0..n }

----------------------------------------------------------------------------
(* Font table: id -> size.  "f2" and "f3" share one size. *)

font_map == [f \in {"f1", "f2", "f3", "f4"} |->
                CASE f = "f1" -> 10
                  [] f = "f2" -> 14
                  [] f = "f3" -> 14
                  [] f = "f4" -> 18]

UnknownFont == "fx"     \* a font id that has no fontspec

AllFonts == DOMAIN font_map \cup {UnknownFont}

----------------------------------------------------------------------------
(* HeaderContext *)

\* update_header without the loop that deletes the deeper levels.
update_header_keeps_deeper(h, level, text) ==
    [l \in DOMAIN h \cup {level} |-> IF l = level THEN text ELSE h[l]]

\* update_header: set level, then delete every deeper level.
update_header(h, level, text) ==
    LET set == [l \in DOMAIN h \cup {level} |-> IF l = level THEN text ELSE h[l]]
    IN  [l \in { e \in DOMAIN set : ~(e > level) } |-> set[l]]

\* update_page_num on a context that is created anew for the page.
update_page_num_new_context(ctx, new_page_num) ==
    [ctx EXCEPT !.page_num = new_page_num, !.headers = EmptyMap]

\* update_page_num: only the page number changes.
update_page_num(ctx, new_page_num) ==
    [ctx EXCEPT !.page_num = new_page_num]

\* to_dict that leaves the header columns out of the row.
to_dict_without_headers(ctx, body_text) ==
    [PageNo |-> ctx.page_num, Text |-> body_text, headers |-> EmptyMap]

\* to_dict: the row built from the context; the Header<level> columns are `headers`.
to_dict(ctx, body_text) ==
    [PageNo |-> ctx.page_num, Text |-> body_text, headers |-> ctx.headers]

\* " ".join(buffer)
RECURSIVE Join(_)
Join(buffer) ==
    IF buffer = << >> THEN << >> ELSE Head(buffer) \o Join(Tail(buffer))

----------------------------------------------------------------------------
(* generate_global_role_map *)

\* Step 1: the tally.  `order` is the insertion order of the dict's keys.
RECURSIVE font_counts(_)
font_counts(nodes) ==
    IF nodes = << >>
    THEN [order |-> << >>, count |-> [f \in DOMAIN font_map |-> 0]]
    ELSE LET acc  == font_counts(SubSeq(nodes, 1, Len(nodes) - 1))
             node == nodes[Len(nodes)]
         IN  IF node.font \in DOMAIN font_map /\ node.len > 0
             THEN [order |-> IF node.font \in Range(acc.order)
                             THEN acc.order
                             ELSE Append(acc.order, node.font),
                   count |-> [acc.count EXCEPT ![node.font] = @ + node.len]]
             ELSE acc

\* max(...) resolving ties to the last key of the largest count.
body_fid_last(fc) ==
    LET best == CHOOSE k \in DOMAIN fc.order :
                    /\ \A j \in DOMAIN fc.order : fc.count[fc.order[j]] <= fc.count[fc.order[k]]
                    /\ \A j \in (k + 1)..Len(fc.order) : fc.count[fc.order[j]] < fc.count[fc.order[k]]
    IN  fc.order[best]

\* Step 2: max(font_counts, key=font_counts.get): the first key of the largest count.
body_fid(fc) ==
    LET best == CHOOSE k \in DOMAIN fc.order :
                    /\ \A j \in DOMAIN fc.order : fc.count[fc.order[j]] <= fc.count[fc.order[k]]
                    /\ \A j \in 1..(k - 1) : fc.count[fc.order[j]] < fc.count[fc.order[k]]
    IN  fc.order[best]

\* Step 3: the sizes in use that are larger than the body size.
candidates(fc, bsize) ==
    { font_map[f] : f \in { g \in Range(fc.order) : font_map[g] > bsize } }

\* sorted(list(candidates)) without reverse=True
RECURSIVE sorted_sizes_ascending(_)
sorted_sizes_ascending(sizes) ==
    IF sizes = {} THEN << >>
    ELSE LET m == CHOOSE x \in sizes : \A y \in sizes : x <= y
         IN  << m >> \o sorted_sizes_ascending(sizes \ {m})

\* sorted(list(candidates), reverse=True)
RECURSIVE sorted_sizes(_)
sorted_sizes(sizes) ==
    IF sizes = {} THEN << >>
    ELSE LET m == CHOOSE x \in sizes : \A y \in sizes : y <= x
         IN  << m >> \o sorted_sizes(sizes \ {m})

\* enumerate(sorted_sizes, 2)
size_to_level_from_two(sorted) ==
    [s \in Range(sorted) |-> 1 + CHOOSE k \in DOMAIN sorted : sorted[k] = s]

\* {size: i for i, size in enumerate(sorted_sizes, 1)}
size_to_level(sorted) ==
    [s \in Range(sorted) |-> CHOOSE k \in DOMAIN sorted : sorted[k] = s]

\* The body size main() prints; 0 when the document has no text of a known font.
classified_body_size(nodes) ==
    LET fc == font_counts(nodes)
    IN  IF fc.order = << >> THEN 0 ELSE font_map[body_fid(fc)]

generate_global_role_map(nodes) ==
    LET fc == font_counts(nodes)
    IN  IF fc.order = << >> THEN EmptyMap
        ELSE LET levels == size_to_level(sorted_sizes(candidates(fc, classified_body_size(nodes))))
             IN  [f \in Range(fc.order) |->
                    IF font_map[f] \in DOMAIN levels THEN levels[font_map[f]] ELSE Body]

----------------------------------------------------------------------------
(* parse_page_to_data_rows: the closures over the page's local state.       *)
(* S is the record of the locals and of the shared context.                 *)

Locals ==
    [body_buffer |-> body_buffer, header_buffer |-> header_buffer,
     active_header_role |-> active_header_role,
     header_has_body_content |-> header_has_body_content,
     rows |-> rows, headers |-> headers, page_num |-> page_num]

\* commit_body that puts the row in front of the page's rows
commit_body_prepends(S) ==
    IF S.body_buffer # << >>
    THEN [S EXCEPT !.rows = << to_dict(S, Join(S.body_buffer)) >> \o @,
                   !.body_buffer = << >>,
                   !.header_has_body_content = TRUE]
    ELSE S

commit_body(S) ==
    IF S.body_buffer # << >>
    THEN [S EXCEPT !.rows = Append(@, to_dict(S, Join(S.body_buffer))),
                   !.body_buffer = << >>,
                   !.header_has_body_content = TRUE]
    ELSE S

commit_header(S) ==
    IF S.active_header_role # NoRole /\ S.header_buffer # << >>
    THEN [S EXCEPT !.headers = update_header(@, S.active_header_role, Join(S.header_buffer)),
                   !.header_buffer = << >>]
    ELSE S

\* commit_orphan_header that never writes a row
commit_orphan_header_skipped(S) == S

commit_orphan_header(S) ==
    IF S.active_header_role # NoRole /\ ~S.header_has_body_content
    THEN [S EXCEPT !.rows = Append(@, to_dict(S, << >>)),
                   !.header_has_body_content = TRUE]
    ELSE S

\* Locals whose active_header_role survives the call.
fresh_locals_keeps_role(S) ==
    [S EXCEPT !.body_buffer = << >>, !.header_buffer = << >>,
              !.header_has_body_content = FALSE, !.rows = << >>]

\* The locals at the start of a call.
fresh_locals(S) ==
    [S EXCEPT !.body_buffer = << >>, !.header_buffer = << >>,
              !.active_header_role = NoRole,
              !.header_has_body_content = FALSE, !.rows = << >>]

\* A start of page that also empties the context.
start_page_clears_context(S, n) ==
    [fresh_locals(update_page_num(S, n)) EXCEPT !.headers = EmptyMap]

\* A start of page that passes over one page number.
start_page_skips_one(S, n) == fresh_locals(update_page_num(S, n + 1))

\* for i, page in enumerate(pages): ctx.update_page_num(i + 1), then the call
start_page(S, n) == fresh_locals(update_page_num(S, n))

\* role_map.get(fid, 1): a font without a role taken as a level 1 header
role_of_default_header(fid) == IF fid \in DOMAIN role_map THEN role_map[fid] ELSE 1

\* role_map.get(fid, 'body')
role_of(fid) == IF fid \in DOMAIN role_map THEN role_map[fid] ELSE Body

\* font_map[fid].size if fid in font_map else 10
font_size_of(fid) == IF fid \in DOMAIN font_map THEN font_map[fid] ELSE DefaultFontSize

\* gap < current_font_size * 1.5
is_visual_continuation(gap, size) == 2 * gap < 3 * size

\* gap > current_font_size * 0.8
is_paragraph_break(gap, size) == 5 * gap > 4 * size

\* The new-header branch: commit the header being built, the pending body,
\* the orphan, then start the new header.
start_new_header(S, role, text) ==
    LET S1 == IF S.active_header_role # NoRole THEN commit_header(S) ELSE S
        S2 == commit_body(S1)
        S3 == commit_orphan_header(S2)
    IN  [S3 EXCEPT !.active_header_role = role,
                   !.header_buffer = Append(@, text),
                   !.header_has_body_content = FALSE]

\* The body branch.
\* A body line that discards the buffered paragraph at a paragraph break.
take_body_line_drops_paragraph(S, idx, gap, size, text) ==
    LET S1 == IF S.active_header_role # NoRole THEN commit_header(S) ELSE S
        S2 == IF idx > 0 /\ S1.body_buffer # << >> /\ is_paragraph_break(gap, size)
              THEN [S1 EXCEPT !.body_buffer = << >>] ELSE S1
    IN  [S2 EXCEPT !.body_buffer = Append(@, text)]

take_body_line(S, idx, gap, size, text) ==
    LET S1 == IF S.active_header_role # NoRole THEN commit_header(S) ELSE S
        S2 == IF idx > 0 /\ S1.body_buffer # << >> /\ is_paragraph_break(gap, size)
              THEN commit_body(S1) ELSE S1
    IN  [S2 EXCEPT !.body_buffer = Append(@, text)]

\* End of page cleanup that writes the context as a row whatever the page held.
end_of_page_writes_context(S) ==
    LET S1 == IF S.active_header_role # NoRole THEN commit_header(S) ELSE S
        S2 == commit_body(S1)
    IN  [S2 EXCEPT !.rows = Append(@, to_dict(S2, << >>))]

\* End of page cleanup with the orphan check before the commit of the body.
end_of_page_orphan_first(S) ==
    LET S1 == IF S.active_header_role # NoRole THEN commit_header(S) ELSE S
    IN  commit_body(commit_orphan_header(S1))

\* End of page cleanup.
end_of_page(S) ==
    LET S1 == IF S.active_header_role # NoRole THEN commit_header(S) ELSE S
    IN  commit_orphan_header(commit_body(S1))

----------------------------------------------------------------------------
(* TextFragment, TextLine, calculate_dynamic_y_tolerance, extract_text_lines *)
(*                                                                         *)
(* A <text> node is [geom, top, left, height, text]: geom is FALSE when a  *)
(* geometry attribute is missing (node.get(...) is None), text is the      *)
(* stripped text.                                                          *)

FallbackTolerance == 3   \* returned for an empty fragment list
MinTolerance == 2        \* the lower clamp

Abs(x) == IF x < 0 THEN 0 - x ELSE x

Max2(a, b) == IF a > b THEN a ELSE b

Min2(a, b) == IF a < b THEN a ELSE b

RECURSIVE SumSeq(_)
SumSeq(s) == IF s = << >> THEN 0 ELSE Head(s) + SumSeq(Tail(s))

RECURSIVE SumSquares(_)
SumSquares(s) == IF s = << >> THEN 0 ELSE Head(s) * Head(s) + SumSquares(Tail(s))

RECURSIVE SelectSeq2(_, _)
\* [x for x in s if x in keep]
SelectSeq2(s, keep) ==
    IF s = << >> THEN << >>
    ELSE IF Head(s) \in keep THEN << Head(s) >> \o SelectSeq2(Tail(s), keep)
         ELSE SelectSeq2(Tail(s), keep)

\* int(node.get('top')) raises TypeError when the attribute is missing.
from_node_raises(node) == ~node.geom

\* TextFragment.from_node; id is the node's position on the page.
from_node(node, id) ==
    [id |-> id, text |-> node.text, top |-> node.top, left |-> node.left,
     height |-> node.height, bottom |-> node.top + node.height]

\* TextLine.__init__
TextLine(first_fragment) ==
    [fragments |-> << first_fragment >>, top |-> first_fragment.top,
     bottom |-> first_fragment.bottom, left |-> first_fragment.left]

\* TextLine.add
add(line, fragment) ==
    [line EXCEPT !.fragments = Append(@, fragment),
                 !.bottom = IF fragment.bottom > @ THEN fragment.bottom ELSE @]

\* statistics.mode (Python 3.8 and later): the first value, in the order of
\* the data, among those of the largest count.
mode(heights) ==
    LET count(h) == Cardinality({ k \in DOMAIN heights : heights[k] = h })
        first == CHOOSE k \in DOMAIN heights :
                    /\ \A j \in DOMAIN heights : count(heights[j]) <= count(heights[k])
                    /\ \A j \in 1..(k - 1) : count(heights[j]) < count(heights[k])
    IN  heights[first]

\* heights = [f.height for f in fragments]; dom = statistics.mode(heights)
dominant_height(fragments) == mode([k \in DOMAIN fragments |-> fragments[k].height])

\* A stable sort of the fragments by key: the last fragment goes after every
\* fragment whose key is not larger.
RECURSIVE stable_sort(_, _)
stable_sort(fragments, with_left) ==
    IF fragments = << >> THEN << >>
    ELSE LET rest == stable_sort(SubSeq(fragments, 1, Len(fragments) - 1), with_left)
             x    == fragments[Len(fragments)]
             le(a) == \/ a.top < x.top
                      \/ a.top = x.top /\ (~with_left \/ a.left <= x.left)
             p    == Cardinality({ j \in DOMAIN rest : le(rest[j]) })
         IN  SubSeq(rest, 1, p) \o << x >> \o SubSeq(rest, p + 1, Len(rest))

\* sorted(fragments, key=lambda f: f.top)
sort_by_top(fragments) == stable_sort(fragments, FALSE)

\* frags.sort(...) left out: the fragments stay in document order.
sort_by_top_left_skipped(fragments) == fragments

\* frags.sort(key=lambda f: (f.top, f.left))
sort_by_top_left(fragments) == stable_sort(fragments, TRUE)

\* The jitter samples: the differences of consecutive tops d with
\* 0 <= d < dom * 0.5.
jitter(fragments, d) ==
    LET frs   == sort_by_top(fragments)
        diffs == [k \in 1..(Len(frs) - 1) |-> frs[k + 1].top - frs[k].top]
    IN  SelectSeq2(diffs, { x \in Range(diffs) : 0 <= x /\ 2 * x < d })

\* int(statistics.mean(jitter) + 2 * stdev(jitter)), stdev taken as 0 for one
\* sample: the largest k with k <= S/n + 2 * sqrt((n*Q - S*S) / (n*(n-1))).
mean_plus_two_stdev(j) ==
    LET n == Len(j)
        S == SumSeq(j)
        Q == SumSquares(j)
        fits(k) == \/ k * n <= S
                   \/ (k * n - S) * (k * n - S) * (n - 1) <= 4 * n * (n * Q - S * S)
        top == 3 * S + 1
    IN  IF n = 1 THEN j[1]
        ELSE CHOOSE k \in 0..top : fits(k) /\ \A k2 \in 0..top : fits(k2) => k2 <= k

\* The clamp left out.
clamp_tolerance_unclamped(calc, d) == calc

\* max(2, min(calc, int(dom * 0.3)))
clamp_tolerance(calc, d) == Max2(MinTolerance, Min2(calc, (3 * d) \div 10))

\* The fallback of 3 returned when there is no jitter sample.
no_jitter_tolerance_fixed(d) == FallbackTolerance

\* max(2, int(dom * 0.1))
no_jitter_tolerance(d) == Max2(MinTolerance, d \div 10)

calculate_dynamic_y_tolerance(fragments) ==
    IF fragments = << >> THEN FallbackTolerance
    ELSE LET d == dominant_height(fragments)
             j == jitter(fragments, d)
         IN  IF j = << >> THEN no_jitter_tolerance(d)
             ELSE clamp_tolerance(mean_plus_two_stdev(j), d)

\* The fragments of the nodes with the empty texts kept.
usable_fragments_unfiltered(nodes) ==
    [k \in DOMAIN nodes |-> from_node(nodes[k], k)]

\* frags = [from_node(n) for n in page.findall('text')]; [f for f in frags if f.text]
usable_fragments(nodes) ==
    LET all == [k \in DOMAIN nodes |-> from_node(nodes[k], k)]
    IN  SelectSeq2(all, { f \in Range(all) : f.text # "" })

\* The test of the sweep against the previous fragment instead of the line.
merges_with_previous(fragment, line, tol) ==
    Abs(fragment.top - line.fragments[Len(line.fragments)].top) <= tol

\* The test of the sweep with < instead of <=.
merges_strictly(fragment, line, tol) == Abs(fragment.top - line.top) < tol

\* abs(frags[i].top - lines[-1].top) <= y_tol
merges(fragment, line, tol) == Abs(fragment.top - line.top) <= tol

\* The sweep over the sorted fragments.
RECURSIVE sweep(_, _)
sweep(frs, tol) ==
    IF Len(frs) = 1 THEN << TextLine(frs[1]) >>
    ELSE LET done == sweep(SubSeq(frs, 1, Len(frs) - 1), tol)
             f    == frs[Len(frs)]
             cur  == done[Len(done)]
         IN  IF merges(f, cur, tol)
             THEN [done EXCEPT ![Len(done)] = add(cur, f)]
             ELSE Append(done, TextLine(f))

\* extract_text_lines for a page whose nodes all have their geometry.
extract_text_lines(nodes) ==
    LET frs == usable_fragments(nodes)
    IN  IF frs = << >> THEN << >>
        ELSE sweep(sort_by_top_left(frs), calculate_dynamic_y_tolerance(frs))

----------------------------------------------------------------------------
(* Inputs *)

\* The text nodes a document may hold.
Nodes == [font : AllFonts, len : 0..MaxLen]

\* Documents whose fonts give two, one and no header level, and an empty one.
SampleDocs ==
    { << [font |-> "f1", len |-> 2], [font |-> "f2", len |-> 1], [font |-> "f4", len |-> 1] >>,
      << [font |-> "f4", len |-> 1], [font |-> "f2", len |-> 2], [font |-> "f1", len |-> 1] >>,
      << [font |-> "f4", len |-> 2], [font |-> "f2", len |-> 1] >>,
      << >> }

\* line.top - prev_bottom, for the lines of a page
Gaps == {2, 12, 30}

\* The font of a line's first fragment: a font the classifier has seen, or
\* one that has no fontspec.
LineFonts == DOMAIN role_map \cup {UnknownFont}

----------------------------------------------------------------------------
(* main *)

InitCommon ==
    /\ body_size = 0
    /\ role_map = EmptyMap
    /\ page_num = 0
    /\ headers = EmptyMap
    /\ prev_headers = EmptyMap
    /\ body_buffer = << >>
    /\ header_buffer = << >>
    /\ active_header_role = NoRole
    /\ header_has_body_content = FALSE
    /\ rows = << >>
    /\ i = 0
    /\ all_rows = << >>
    /\ trace = << >>
    /\ page_nodes = << >>
    /\ lines = << >>
    /\ y_tol = 0
    /\ dom = 0
    /\ page_lines = << >>
    /\ rerun = << >>

Init ==
    /\ frags \in SampleDocs
    /\ pc = "parse"
    /\ InitCommon

\* try: root = ET.parse(xml_path).getroot() succeeds
Parse ==
    /\ pc = "parse"
    /\ pc' = "classify"
    /\ UNCHANGED << lvars, pvars, frags, body_size, role_map, page_num, headers, prev_headers,
                    body_buffer, header_buffer, active_header_role,
                    header_has_body_content, rows, i, all_rows, trace >>

\* except Exception as e: return print(e): the document cannot be read, the
\* error is printed and main() returns None.
ParseFails ==
    /\ pc = "parse"
    /\ pc' = "returned"
    /\ UNCHANGED << lvars, pvars, frags, body_size, role_map, page_num, headers, prev_headers,
                    body_buffer, header_buffer, active_header_role,
                    header_has_body_content, rows, i, all_rows, trace >>

SetLocals(S) ==
    /\ body_buffer' = S.body_buffer
    /\ header_buffer' = S.header_buffer
    /\ active_header_role' = S.active_header_role
    /\ header_has_body_content' = S.header_has_body_content
    /\ rows' = S.rows
    /\ headers' = S.headers
    /\ page_num' = S.page_num
    /\ prev_headers' = headers

\* global_roles = generate_global_role_map(root, fmap); ctx = HeaderContext(name, 0)
Classify ==
    /\ pc = "classify"
    /\ role_map' = generate_global_role_map(frags)
    /\ body_size' = classified_body_size(frags)
    /\ pc' = "pages"
    /\ UNCHANGED << lvars, pvars, frags, page_num, headers, prev_headers, body_buffer, header_buffer,
                    active_header_role, header_has_body_content, rows, i, all_rows, trace >>

\* ctx.update_page_num(i + 1) and the entry of parse_page_to_data_rows
StartPage ==
    /\ pc = "pages"
    /\ page_num < MaxPages
    /\ SetLocals(start_page(Locals, page_num + 1))
    /\ i' = 0
    /\ pc' = "lines"
    /\ UNCHANGED << lvars, pvars, frags, body_size, role_map, all_rows, trace >>

LineEntry(fid, gap, branch) ==
    [page |-> page_num, idx |-> i, font |-> fid, role |-> role_of(fid), gap |-> gap,
     branch |-> branch]

\* A header line that continues the header being built.
HeaderContinuation ==
    /\ pc = "lines"
    /\ Len(trace) < MaxLines
    /\ \E fid \in LineFonts, gap \in Gaps :
         /\ role_of(fid) # Body
         /\ active_header_role # NoRole /\ role_of(fid) = active_header_role
         /\ is_visual_continuation(gap, font_size_of(fid))
         /\ header_buffer' = Append(header_buffer, << Len(trace) + 1 >>)
         /\ trace' = Append(trace, LineEntry(fid, gap, "cont"))
    /\ i' = i + 1
    /\ prev_headers' = headers
    /\ UNCHANGED << lvars, pvars, frags, body_size, role_map, pc, page_num, headers, body_buffer,
                    active_header_role, header_has_body_content, rows, all_rows >>

\* A header line that starts a new header.
HeaderNew ==
    /\ pc = "lines"
    /\ Len(trace) < MaxLines
    /\ \E fid \in LineFonts, gap \in Gaps :
         /\ role_of(fid) # Body
         /\ ~ ( /\ active_header_role # NoRole /\ role_of(fid) = active_header_role
                /\ is_visual_continuation(gap, font_size_of(fid)) )
         /\ SetLocals(start_new_header(Locals, role_of(fid), << Len(trace) + 1 >>))
         /\ trace' = Append(trace, LineEntry(fid, gap, "new"))
    /\ i' = i + 1
    /\ UNCHANGED << lvars, pvars, frags, body_size, role_map, pc, all_rows >>

\* A body line.
BodyLine ==
    /\ pc = "lines"
    /\ Len(trace) < MaxLines
    /\ \E fid \in LineFonts, gap \in Gaps :
         /\ role_of(fid) = Body
         /\ SetLocals(take_body_line(Locals, i, gap, font_size_of(fid), << Len(trace) + 1 >>))
         /\ trace' = Append(trace, LineEntry(fid, gap, "body"))
    /\ i' = i + 1
    /\ UNCHANGED << lvars, pvars, frags, body_size, role_map, pc, all_rows >>

\* End of page cleanup, return rows, all_rows.extend(...)
EndPage ==
    /\ pc = "lines"
    /\ LET S == end_of_page(Locals)
       IN  /\ SetLocals(S)
           /\ all_rows' = all_rows \o S.rows
    /\ pc' = "pages"
    /\ UNCHANGED << lvars, pvars, frags, body_size, role_map, i, trace >>

\* extract_text_lines(page) raises on a node without its geometry; nothing
\* in main() catches it, so the run ends before the rows are written.
PageRaises ==
    /\ pc = "pages"
    /\ page_num < MaxPages
    /\ SetLocals(update_page_num(Locals, page_num + 1))
    /\ pc' = "raised"
    /\ UNCHANGED << lvars, pvars, frags, body_size, role_map, i, all_rows, trace >>

\* The loop over the pages ends.
Finish ==
    /\ pc = "pages"
    /\ pc' = "done"
    /\ prev_headers' = headers
    /\ UNCHANGED << lvars, pvars, frags, body_size, role_map, page_num, headers, body_buffer,
                    header_buffer, active_header_role, header_has_body_content, rows, i,
                    all_rows, trace >>

Next ==
    \/ Parse
    \/ ParseFails
    \/ Classify
    \/ StartPage
    \/ HeaderContinuation
    \/ HeaderNew
    \/ BodyLine
    \/ EndPage
    \/ PageRaises
    \/ Finish

Spec == Init /\ [][Next]_vars

----------------------------------------------------------------------------
(* The classifier alone, over every document of at most MaxFrags text nodes *)

InitRoles ==
    /\ frags \in SeqsUpTo(Nodes, MaxFrags)
    /\ pc = "classify"
    /\ InitCommon

NextRoles == Classify

SpecRoles == InitRoles /\ [][NextRoles]_vars

----------------------------------------------------------------------------
(* HeaderContext.update_header alone, from every context over 1..MaxLevel.  *)
(* active_header_role and header_buffer hold the arguments of the last call *)
(* (the call site is commit_header), prev_headers the context before it.    *)

CtxTexts == { << 1 >>, << 2 >>, << 1, 2 >> }

InitCtx ==
    /\ frags = << >>
    /\ body_size = 0
    /\ role_map = EmptyMap
    /\ pc = "ctx"
    /\ page_num = 0
    /\ headers = EmptyMap
    /\ prev_headers = EmptyMap
    /\ body_buffer = << >>
    /\ header_buffer = << >>
    /\ active_header_role = NoRole
    /\ header_has_body_content = FALSE
    /\ rows = << >>
    /\ i = 0
    /\ all_rows = << >>
    /\ trace = << >>
    /\ page_nodes = << >>
    /\ lines = << >>
    /\ y_tol = 0
    /\ dom = 0
    /\ page_lines = << >>
    /\ rerun = << >>

CallUpdateHeader ==
    /\ pc = "ctx"
    /\ \E level \in 1..MaxLevel, text \in CtxTexts :
         /\ headers' = update_header(headers, level, text)
         /\ active_header_role' = level
         /\ header_buffer' = << text >>
    /\ prev_headers' = headers
    /\ UNCHANGED << lvars, pvars, frags, body_size, role_map, pc, page_num, body_buffer,
                    header_has_body_content, rows, i, all_rows, trace >>

NextCtx == CallUpdateHeader

SpecCtx == InitCtx /\ [][NextCtx]_vars

----------------------------------------------------------------------------
(* extract_text_lines and calculate_dynamic_y_tolerance alone, over every   *)
(* page of at most MaxPageFrags text nodes.                                 *)

Tops == {0, 1, 3, 4}

Heights == {4, 20, 40}

Lefts == {0, 5}

\* A node without text: its geometry plays no part once it is filtered out.
EmptyNode == [geom |-> TRUE, top |-> 0, left |-> 0, height |-> 4, text |-> ""]

\* A node with a geometry attribute missing.
MalformedNode == [geom |-> FALSE, top |-> 0, left |-> 0, height |-> 4, text |-> "t"]

PageNodes ==
    [geom : {TRUE}, top : Tops, left : Lefts, height : Heights, text : {"t"}]
        \cup {EmptyNode, MalformedNode}

InitLines ==
    /\ page_nodes \in SeqsUpTo(PageNodes, MaxPageFrags)
    /\ page_lines = << >>
    /\ rerun = << >>
    /\ lines = << >>
    /\ y_tol = 0
    /\ dom = 0
    /\ frags = << >>
    /\ body_size = 0
    /\ role_map = EmptyMap
    /\ pc = "extract"
    /\ page_num = 0
    /\ headers = EmptyMap
    /\ prev_headers = EmptyMap
    /\ body_buffer = << >>
    /\ header_buffer = << >>
    /\ active_header_role = NoRole
    /\ header_has_body_content = FALSE
    /\ rows = << >>
    /\ i = 0
    /\ all_rows = << >>
    /\ trace = << >>

\* Whether the list comprehension over from_node raises.
extract_raises(nodes) == \E k \in DOMAIN nodes : from_node_raises(nodes[k])

\* lines = extract_text_lines(page)
Extract ==
    /\ pc = "extract"
    /\ IF extract_raises(page_nodes)
       THEN /\ pc' = "raised"
            /\ UNCHANGED << lines, y_tol, dom >>
       ELSE LET frs == usable_fragments(page_nodes)
            IN  /\ pc' = "extracted"
                /\ lines' = extract_text_lines(page_nodes)
                /\ y_tol' = IF frs = << >> THEN 0 ELSE calculate_dynamic_y_tolerance(frs)
                /\ dom' = IF frs = << >> THEN 0 ELSE dominant_height(frs)
    /\ UNCHANGED << pvars, page_nodes, frags, body_size, role_map, page_num, headers, prev_headers,
                    body_buffer, header_buffer, active_header_role,
                    header_has_body_content, rows, i, all_rows, trace >>

\* calculate_dynamic_y_tolerance called on the page's usable fragments.
Tolerance ==
    /\ pc = "extract"
    /\ ~extract_raises(page_nodes)
    /\ LET frs == usable_fragments(page_nodes)
       IN  /\ y_tol' = calculate_dynamic_y_tolerance(frs)
           /\ dom' = IF frs = << >> THEN 0 ELSE dominant_height(frs)
    /\ pc' = "tolerance"
    /\ UNCHANGED << pvars, page_nodes, lines, frags, body_size, role_map, page_num, headers,
                    prev_headers, body_buffer, header_buffer, active_header_role,
                    header_has_body_content, rows, i, all_rows, trace >>

NextLines ==
    \/ Extract
    \/ Tolerance

SpecLines == InitLines /\ [][NextLines]_vars

----------------------------------------------------------------------------
(* One page given as a whole: main() on a document of one page, run line by *)
(* line, and a second run of main() on the same input, computed as a fold.  *)

Reverse(s) == [k \in DOMAIN s |-> s[Len(s) - k + 1]]

\* role_map.get(fid, 'body') for a given role map
role_in(rm, fid) == IF fid \in DOMAIN rm THEN rm[fid] ELSE Body

\* The branch the loop body takes for a line.
branch_of(S, rm, ln) ==
    LET role == role_in(rm, ln.font)
    IN  IF role = Body THEN "body"
        ELSE IF /\ S.active_header_role # NoRole /\ role = S.active_header_role
                /\ is_visual_continuation(ln.gap, font_size_of(ln.font))
             THEN "cont"
             ELSE "new"

\* The loop body of parse_page_to_data_rows for the line of index idx.
process_line(S, rm, idx, ln, text) ==
    LET branch == branch_of(S, rm, ln)
    IN  CASE branch = "cont" -> [S EXCEPT !.header_buffer = Append(@, text)]
          [] branch = "new"  -> start_new_header(S, role_in(rm, ln.font), text)
          [] branch = "body" -> take_body_line(S, idx, ln.gap, font_size_of(ln.font), text)

\* The loop over the first k lines.
RECURSIVE process_lines(_, _, _, _)
process_lines(S, rm, lns, k) ==
    IF k = 0 THEN S
    ELSE process_line(process_lines(S, rm, lns, k - 1), rm, k - 1, lns[k], << k >>)

\* parse_page_to_data_rows(lines, font_map, role_map, context): the locals
\* and the context when it returns.
parse_page_to_data_rows(lns, rm, ctx) ==
    end_of_page(process_lines(fresh_locals(ctx), rm, lns, Len(lns)))

\* ctx = HeaderContext(name, 0)
InitialContext ==
    [body_buffer |-> << >>, header_buffer |-> << >>, active_header_role |-> NoRole,
     header_has_body_content |-> FALSE, rows |-> << >>, headers |-> EmptyMap,
     page_num |-> 0]

\* A dict whose iteration order is the reverse of the insertion order.
dict_as_iterated_reversed(fc) == [fc EXCEPT !.order = Reverse(@)]

\* font_counts as max() iterates it: a dict keeps its insertion order.
dict_as_iterated(fc) == fc

\* generate_global_role_map from the tally.
role_map_of(fc) ==
    IF fc.order = << >> THEN EmptyMap
    ELSE LET levels == size_to_level(sorted_sizes(candidates(fc, font_map[body_fid(fc)])))
         IN  [f \in Range(fc.order) |->
                IF font_map[f] \in DOMAIN levels THEN levels[font_map[f]] ELSE Body]

\* main() run again on a document of one page.
run_again(nodes, lns) ==
    LET rm == role_map_of(dict_as_iterated(font_counts(nodes)))
        S  == parse_page_to_data_rows(lns, rm, update_page_num(InitialContext, 1))
    IN  [role_map |-> rm, rows |-> S.rows]

\* Documents with a body font and a larger one; in the second the two fonts
\* tie for the largest count.
PageDocs ==
    { << [font |-> "f1", len |-> 2], [font |-> "f4", len |-> 1] >>,
      << [font |-> "f1", len |-> 1], [font |-> "f4", len |-> 1] >> }

\* The lines of the page: the font of the first fragment, the gap to the
\* bottom of the line before, the right end of the last fragment, whether
\* the last fragment ends with a hyphen.
PageLineInputs == [font : {"f1", "f4"}, gap : {2, 30}, right : {500}, hyphen : {FALSE}]

\* main() before the classifier runs, whatever the document and the page.
InitOnePage ==
    /\ rerun = << >>
    /\ pc = "classify"
    /\ page_nodes = << >>
    /\ lines = << >>
    /\ y_tol = 0
    /\ dom = 0
    /\ body_size = 0
    /\ role_map = EmptyMap
    /\ page_num = 0
    /\ headers = EmptyMap
    /\ prev_headers = EmptyMap
    /\ body_buffer = << >>
    /\ header_buffer = << >>
    /\ active_header_role = NoRole
    /\ header_has_body_content = FALSE
    /\ rows = << >>
    /\ i = 0
    /\ all_rows = << >>
    /\ trace = << >>

InitPage ==
    /\ frags \in PageDocs
    /\ page_lines \in SeqsUpTo(PageLineInputs, MaxPageLines)
    /\ InitOnePage

\* ctx.update_page_num(1) and the entry of parse_page_to_data_rows
PageBegin ==
    /\ pc = "pages"
    /\ SetLocals(start_page(Locals, 1))
    /\ i' = 0
    /\ pc' = "page"
    /\ UNCHANGED << lvars, pvars, frags, body_size, role_map, all_rows, trace >>

\* One turn of the loop over the lines.
PageLine ==
    /\ pc = "page"
    /\ i < Len(page_lines)
    /\ LET ln == page_lines[i + 1]
       IN  /\ SetLocals(process_line(Locals, role_map, i, ln, << i + 1 >>))
           /\ trace' = Append(trace, LineEntry(ln.font, ln.gap, branch_of(Locals, role_map, ln)))
    /\ i' = i + 1
    /\ UNCHANGED << lvars, pvars, frags, body_size, role_map, pc, all_rows >>

\* End of page cleanup, return rows, all_rows.extend(...), end of main()
PageEnd ==
    /\ pc = "page"
    /\ i = Len(page_lines)
    /\ LET S == end_of_page(Locals)
       IN  /\ SetLocals(S)
           /\ all_rows' = all_rows \o S.rows
    /\ pc' = "paged"
    /\ UNCHANGED << lvars, pvars, frags, body_size, role_map, i, trace >>

\* The second run of main() on the same document.
RunAgain ==
    /\ pc = "paged"
    /\ rerun' = << run_again(frags, page_lines) >>
    /\ pc' = "rerun"
    /\ UNCHANGED << lvars, page_lines, frags, body_size, role_map, page_num, headers,
                    prev_headers, body_buffer, header_buffer, active_header_role,
                    header_has_body_content, rows, i, all_rows, trace >>

NextPage ==
    \/ Classify
    \/ PageBegin
    \/ PageLine
    \/ PageEnd
    \/ RunAgain

SpecPage == InitPage /\ [][NextPage]_vars

----------------------------------------------------------------------------
(* The variant of src/calculate_dynamic_y_tolerance.py: the gap is compared *)
(* with a limit computed from the page, and a header line continues the     *)
(* header only when the line before it did not end early.                   *)

\* gaps: the gaps between adjacent lines, those in [0, 50) only
merge_gaps(lns) ==
    LET all == [k \in 1..(Len(lns) - 1) |-> lns[k + 1].gap]
    IN  SelectSeq2(all, { g \in Range(all) : 0 <= g /\ g < 50 })

\* gap <= vertical_merge_limit, the limit being 5.0 without gaps, dom_gap + 2.0
\* for one gap and dom_gap + 0.5 * stdev(gaps) for more.
is_tight_gap(gap, lns) ==
    LET g == merge_gaps(lns)
        n == Len(g)
        S == SumSeq(g)
        Q == SumSquares(g)
    IN  IF Len(lns) < 2 \/ n = 0 THEN gap <= 5
        ELSE IF n = 1 THEN gap <= mode(g) + 2
        ELSE \/ gap <= mode(g)
             \/ 4 * (gap - mode(g)) * (gap - mode(g)) * n * (n - 1) <= n * Q - S * S

\* gap > vertical_merge_limit * 1.5
is_wide_gap(gap, lns) ==
    LET g == merge_gaps(lns)
        n == Len(g)
        S == SumSeq(g)
        Q == SumSquares(g)
        x == 4 * gap - 6 * mode(g)
    IN  IF Len(lns) < 2 \/ n = 0 THEN 2 * gap > 15
        ELSE IF n = 1 THEN 2 * gap > 3 * (mode(g) + 2)
        ELSE x > 0 /\ x * x * n * (n - 1) > 9 * (n * Q - S * S)

\* max(l.fragments[-1].right for l in lines)
page_right_edge(lns) ==
    CHOOSE r \in { lns[k].right : k \in DOMAIN lns } : \A k \in DOMAIN lns : lns[k].right <= r

\* The line-fill test left out.
prev_line_ended_early_never(lns, idx) == FALSE

\* The line before ended more than 80 short of the right edge, and not with a hyphen.
prev_line_ended_early(lns, idx) ==
    /\ idx > 0
    /\ lns[idx].right < page_right_edge(lns) - 80
    /\ ~lns[idx].hyphen

\* gap = (line.top - prev_line.bottom) if prev_line else 0
gap_of(lns, idx) == IF idx = 0 THEN 0 ELSE lns[idx + 1].gap

\* The branch the loop body of the variant takes for the line of index idx.
fill_branch_of(S, rm, lns, idx) ==
    LET role == role_in(rm, lns[idx + 1].font)
    IN  IF role = Body THEN "body"
        ELSE IF /\ S.active_header_role # NoRole /\ role = S.active_header_role
                /\ is_tight_gap(gap_of(lns, idx), lns)
                /\ ~prev_line_ended_early(lns, idx)
             THEN "cont"
             ELSE "new"

\* The body branch of the variant.
fill_take_body_line(S, lns, idx, text) ==
    LET S1 == IF S.active_header_role # NoRole THEN commit_header(S) ELSE S
        S2 == IF idx > 0 /\ S1.body_buffer # << >> /\ is_wide_gap(gap_of(lns, idx), lns)
              THEN commit_body(S1) ELSE S1
    IN  [S2 EXCEPT !.body_buffer = Append(@, text)]

\* The loop body of the variant.
fill_process_line(S, rm, lns, idx, text) ==
    LET branch == fill_branch_of(S, rm, lns, idx)
    IN  CASE branch = "cont" -> [S EXCEPT !.header_buffer = Append(@, text)]
          [] branch = "new"  -> start_new_header(S, role_in(rm, lns[idx + 1].font), text)
          [] branch = "body" -> fill_take_body_line(S, lns, idx, text)

FillDoc == << [font |-> "f1", len |-> 2], [font |-> "f4", len |-> 1] >>

FillLineInputs == [font : {"f1", "f4"}, gap : {2, 30}, right : {300, 500}, hyphen : BOOLEAN]

InitFill ==
    /\ frags = FillDoc
    /\ page_lines \in SeqsUpTo(FillLineInputs, MaxFillLines)
    /\ InitOnePage

\* One turn of the loop over the lines, in the variant.
FillLine ==
    /\ pc = "page"
    /\ i < Len(page_lines)
    /\ SetLocals(fill_process_line(Locals, role_map, page_lines, i, << i + 1 >>))
    /\ trace' = Append(trace, LineEntry(page_lines[i + 1].font, gap_of(page_lines, i),
                                        fill_branch_of(Locals, role_map, page_lines, i)))
    /\ i' = i + 1
    /\ UNCHANGED << lvars, pvars, frags, body_size, role_map, pc, all_rows >>

NextFill ==
    \/ Classify
    \/ PageBegin
    \/ FillLine
    \/ PageEnd

SpecFill == InitFill /\ [][NextFill]_vars

----------------------------------------------------------------------------
(* The variant of src/pdf_parser_generalised.py: a header line continues the *)
(* header being built whatever the gap, a body line ends the header, and no  *)
(* row is written for a header without body text.                            *)

\* commit_body of the variant: the row, and the buffer emptied.
base_commit_body(S) ==
    IF S.body_buffer # << >>
    THEN [S EXCEPT !.rows = Append(@, to_dict(S, Join(S.body_buffer))),
                   !.body_buffer = << >>]
    ELSE S

\* fs = font_map[fid].size if fid in font_map else 12
base_font_size_of(fid) == IF fid \in DOMAIN font_map THEN font_map[fid] ELSE BaseDefaultFontSize

\* gap > fs * 0.6
base_is_paragraph_break(gap, fs) == 5 * gap > 3 * fs

\* The branch the loop body of the variant takes for a line.
base_branch_of(S, rm, ln) ==
    LET role == role_in(rm, ln.font)
    IN  IF role = Body THEN "body"
        ELSE IF S.active_header_role # NoRole /\ role = S.active_header_role THEN "cont"
             ELSE "new"

\* Case B of the header branch: a new header starts.
base_start_new_header(S, role, text) ==
    LET S1 == IF S.active_header_role # NoRole THEN commit_header(S) ELSE S
        S2 == base_commit_body(S1)
    IN  [S2 EXCEPT !.active_header_role = role,
                   !.header_buffer = Append(@, text)]

\* A body branch that leaves the header active.
base_take_body_line_keeps_role(S, idx, gap, fs, text) ==
    LET S1 == IF S.active_header_role # NoRole THEN commit_header(S) ELSE S
        S2 == IF idx > 0 /\ S1.body_buffer # << >> /\ base_is_paragraph_break(gap, fs)
              THEN base_commit_body(S1) ELSE S1
    IN  [S2 EXCEPT !.body_buffer = Append(@, text)]

\* The body branch of the variant.
base_take_body_line(S, idx, gap, fs, text) ==
    LET S1 == IF S.active_header_role # NoRole
              THEN [commit_header(S) EXCEPT !.active_header_role = NoRole]
              ELSE S
        S2 == IF idx > 0 /\ S1.body_buffer # << >> /\ base_is_paragraph_break(gap, fs)
              THEN base_commit_body(S1) ELSE S1
    IN  [S2 EXCEPT !.body_buffer = Append(@, text)]

\* The loop body of the variant.
base_process_line(S, rm, idx, ln, text) ==
    LET branch == base_branch_of(S, rm, ln)
    IN  CASE branch = "cont" -> [S EXCEPT !.header_buffer = Append(@, text)]
          [] branch = "new"  -> base_start_new_header(S, role_in(rm, ln.font), text)
          [] branch = "body" -> base_take_body_line(S, idx, ln.gap, base_font_size_of(ln.font), text)

\* End of page cleanup of the variant.
base_end_of_page(S) ==
    base_commit_body(IF S.active_header_role # NoRole THEN commit_header(S) ELSE S)

\* A document with a body font and two larger ones of different sizes.
BaseDoc == << [font |-> "f1", len |-> 2], [font |-> "f2", len |-> 1], [font |-> "f4", len |-> 1] >>

BaseLineInputs ==
    [font : {"f1", "f2", "f4", UnknownFont}, gap : {2, 30}, right : {500}, hyphen : {FALSE}]

InitBase ==
    /\ frags = BaseDoc
    /\ page_lines \in SeqsUpTo(BaseLineInputs, MaxBaseLines)
    /\ InitOnePage

\* One turn of the loop over the lines, in the variant.
BaseLine ==
    /\ pc = "page"
    /\ i < Len(page_lines)
    /\ LET ln == page_lines[i + 1]
       IN  /\ SetLocals(base_process_line(Locals, role_map, i, ln, << i + 1 >>))
           /\ trace' = Append(trace, LineEntry(ln.font, ln.gap, base_branch_of(Locals, role_map, ln)))
    /\ i' = i + 1
    /\ UNCHANGED << lvars, pvars, frags, body_size, role_map, pc, all_rows >>

\* End of page cleanup of the variant, return rows, all_rows.extend(...)
BaseEnd ==
    /\ pc = "page"
    /\ i = Len(page_lines)
    /\ LET S == base_end_of_page(Locals)
       IN  /\ SetLocals(S)
           /\ all_rows' = all_rows \o S.rows
    /\ pc' = "paged"
    /\ UNCHANGED << lvars, pvars, frags, body_size, role_map, i, trace >>

NextBase ==
    \/ Classify
    \/ PageBegin
    \/ BaseLine
    \/ BaseEnd

SpecBase == InitBase /\ [][NextBase]_vars

----------------------------------------------------------------------------
(* Claims *)

\* C1: immediately after update_header(L, text) the context holds text at
\* level L, holds no entry at a level greater than L, and every entry at a
\* level less than L is unchanged (and no other entry has appeared).
C1_UpdateHeaderClearsDeeper ==
    (pc = "ctx" /\ active_header_role # NoRole) =>
        LET L == active_header_role
            text == Join(header_buffer)
        IN  /\ L \in DOMAIN headers
            /\ headers[L] = text
            /\ \A l \in DOMAIN headers : l <= L
            /\ \A l \in DOMAIN prev_headers :
                   l < L => (l \in DOMAIN headers /\ headers[l] = prev_headers[l])
            /\ DOMAIN headers \subseteq DOMAIN prev_headers \cup {L}

\* C1 witness: level 2 is set in a context that held levels 1, 2 and 3, with
\* other texts.
C1_Witness ==
    /\ pc = "ctx"
    /\ active_header_role = 2
    /\ DOMAIN prev_headers = {1, 2, 3}
    /\ prev_headers[2] # Join(header_buffer)
    /\ prev_headers[1] # Join(header_buffer)
    /\ DOMAIN headers = {1, 2}

----------------------------------------------------------------------------
(* Vocabulary of the claims about the page state machine *)

\* The rows emitted so far, in order.
EmittedRows == IF pc = "lines" THEN all_rows \o rows ELSE all_rows

IsHeaderLine(n) == trace[n].role # Body

\* The page of line n has been processed to its end.
PageDone(n) == trace[n].page < page_num \/ pc \in {"pages", "done"}

LinesOfPage(p) == { n \in DOMAIN trace : trace[n].page = p }

LastOf(S) == CHOOSE n \in S : \A m \in S : m <= n

\* Lines a..b are one header as commit_header writes it: a header line that
\* does not extend the buffer of the line before it, the continuation lines
\* that follow it, and no continuation line after b.
IsHeaderRun(a, b) ==
    /\ a \in DOMAIN trace /\ b \in DOMAIN trace /\ a <= b
    /\ IsHeaderLine(a)
    /\ trace[a].branch = "new" \/ ~IsHeaderLine(a - 1)
    /\ \A n \in (a + 1)..b : trace[n].branch = "cont"
    /\ b = Len(trace) \/ trace[b + 1].branch # "cont"

RunText(a, b) == [j \in 1..(b - a + 1) |-> a + j - 1]

\* Lines n and n+1 of one page: a header line that starts a header, then a
\* header line of equal or higher rank.
HeaderThenHigherOrEqual(n) ==
    /\ n \in DOMAIN trace /\ (n + 1) \in DOMAIN trace
    /\ trace[n].page = trace[n + 1].page
    /\ IsHeaderLine(n) /\ trace[n].branch = "new"
    /\ IsHeaderLine(n + 1) /\ trace[n + 1].role <= trace[n].role

\* The rows with empty body text that carry exactly line n's text at its level.
EmptyRowsFor(n) ==
    { k \in DOMAIN EmittedRows :
        /\ EmittedRows[k].Text = << >>
        /\ trace[n].role \in DOMAIN EmittedRows[k].headers
        /\ EmittedRows[k].headers[trace[n].role] = << n >> }

----------------------------------------------------------------------------

\* C2: a row that carries body text which preceded a header line B never
\* contains B's text: every header line whose text is in the row's headers
\* comes before every body line whose text is in the row's text.
C2_BodyRowsCarryPreUpdateHeaders ==
    \A k \in DOMAIN EmittedRows :
        \A b \in Range(EmittedRows[k].Text) :
            \A l \in DOMAIN EmittedRows[k].headers :
                \A h \in Range(EmittedRows[k].headers[l]) : h < b

C4_EveryWrittenHeaderSurfaces ==
    \A a \in DOMAIN trace : \A b \in DOMAIN trace :
        (IsHeaderRun(a, b) /\ PageDone(a)) =>
            \E k \in DOMAIN all_rows :
                /\ all_rows[k].PageNo = trace[a].page
                /\ trace[a].role \in DOMAIN all_rows[k].headers
                /\ all_rows[k].headers[trace[a].role] = RunText(a, b)

\* C5: page A ends with a level-1 header and no body text after it; page B
\* holds body lines only.  Every row emitted for page B carries that header
\* as its level-1 header, and page B, once processed, has emitted a row.
C5_HeaderGovernsNextPage ==
    \A p \in 2..page_num :
        LET before == LinesOfPage(p - 1)
            here   == LinesOfPage(p)
        IN  ( /\ before # {} /\ here # {}
              /\ trace[LastOf(before)].role = 1
              /\ \A n \in here : ~IsHeaderLine(n) )
            => LET b == LastOf(before)
                   a == CHOOSE x \in before : IsHeaderRun(x, b)
               IN  /\ \A k \in DOMAIN EmittedRows :
                          EmittedRows[k].PageNo = p =>
                              /\ 1 \in DOMAIN EmittedRows[k].headers
                              /\ EmittedRows[k].headers[1] = RunText(a, b)
                   /\ PageDone(LastOf(here)) =>
                          \E k \in DOMAIN all_rows : all_rows[k].PageNo = p

\* C5 witness: page 1 ended with a level-1 header, page 2 held body lines
\* only and has been processed.
C5_Witness ==
    /\ pc = "pages" /\ page_num = 2
    /\ LinesOfPage(1) # {} /\ LinesOfPage(2) # {}
    /\ trace[LastOf(LinesOfPage(1))].role = 1
    /\ \A n \in LinesOfPage(2) : ~IsHeaderLine(n)
    /\ \E k \in DOMAIN all_rows : all_rows[k].PageNo = 2 /\ all_rows[k].Text # << >>

\* The first line of a page has just been processed; it is a header line of
\* the level of the header line that ended the page before, and stands at a
\* continuation's distance.
TopLineContinuesLevel(n) ==
    /\ pc = "lines" /\ i = 1
    /\ n = Len(trace) /\ n >= 2
    /\ trace[n].page = page_num /\ trace[n - 1].page = page_num - 1
    /\ IsHeaderLine(n - 1) /\ trace[n].role = trace[n - 1].role
    /\ is_visual_continuation(trace[n].gap, font_size_of(trace[n].font))

\* C6 as stated: the continuation line at the top of the next page is
\* appended to the header that was being accumulated when the page ended.
C6_HeaderContinuesAcrossPages ==
    \A n \in DOMAIN trace :
        TopLineContinuesLevel(n) =>
            /\ (n - 1) \in Range(Join(header_buffer))
            /\ n \in Range(Join(header_buffer))

\* C6 amended: the header accumulated at the end of the page has been
\* committed to the context, and the line at the top of the next page starts
\* a new header of that level, whose buffer holds this line only.
C6_TopLineStartsNewHeader ==
    \A n \in DOMAIN trace :
        TopLineContinuesLevel(n) =>
            /\ trace[n].branch = "new"
            /\ active_header_role = trace[n].role
            /\ header_buffer = << << n >> >>
            /\ ~header_has_body_content
            /\ trace[n].role \in DOMAIN headers
            /\ (n - 1) \in Range(headers[trace[n].role])
            /\ ~(n \in Range(headers[trace[n].role]))

\* C6 witness: such a line has been processed.
C6_Witness ==
    \E n \in DOMAIN trace : TopLineContinuesLevel(n)

\* C7: between the end of a page and the first line of the next page the
\* level-to-text map does not change, and the step to the next page adds one
\* to the page number.
C7_ContextKeptBetweenPages ==
    [][pc = "pages" =>
        /\ headers' = headers
        /\ pc' = "lines" => page_num' = page_num + 1]_vars

\* C7 witness: the second page starts with a context that holds headers.
C7_Witness ==
    /\ pc = "lines" /\ i = 0 /\ page_num = 2
    /\ headers # EmptyMap

----------------------------------------------------------------------------
(* Vocabulary of the claims about the classifier *)

\* The fonts of the font table that carry text.
UsedFonts ==
    { f \in DOMAIN font_map : \E k \in DOMAIN frags : frags[k].font = f /\ frags[k].len > 0 }

UsedSizes == { font_map[f] : f \in UsedFonts }

\* The characters of the nodes whose font is in F.
RECURSIVE CharsIn(_, _)
CharsIn(nodes, F) ==
    IF nodes = << >> THEN 0
    ELSE (IF Head(nodes).font \in F THEN Head(nodes).len ELSE 0) + CharsIn(Tail(nodes), F)

CharsOfFont(f) == CharsIn(frags, {f})

CharsOfSize(s) == CharsIn(frags, { f \in DOMAIN font_map : font_map[f] = s })

FirstNodeOf(f) ==
    CHOOSE k \in DOMAIN frags :
        /\ frags[k].font = f /\ frags[k].len > 0
        /\ \A j \in 1..(k - 1) : ~(frags[j].font = f /\ frags[j].len > 0)

\* K: the number of distinct sizes larger than the classified body size.
HeaderLevelCount ==
    Cardinality({ s \in UsedSizes : s > body_size })

----------------------------------------------------------------------------

\* C8: every header level of every output row lies in 1..K, K the number of
\* distinct font sizes larger than the classified body size; with K = 0 no
\* row has a header column.
C8_HeaderLevelsWithinK ==
    pc # "classify" =>
        \A k \in DOMAIN EmittedRows :
            DOMAIN EmittedRows[k].headers \subseteq 1..HeaderLevelCount

\* C8 witness: a document with two header levels has a row with both.
C8_Witness ==
    /\ pc = "done"
    /\ HeaderLevelCount = 2
    /\ \E k \in DOMAIN all_rows : DOMAIN all_rows[k].headers = {1, 2}

\* C9 as stated: the body size is a size of the largest total, the characters
\* being accumulated per size.
C9_BodySizeHasLargestSizeTotal ==
    (pc = "pages" /\ UsedFonts # {}) =>
        \A s \in UsedSizes : CharsOfSize(s) <= CharsOfSize(body_size)

\* What generate_global_role_map computes instead: the body size is the size
\* of the font id of the largest total, the characters being accumulated per
\* font id; of several font ids of that total the one seen first is taken.
BodySizeIsSizeOfLargestFont ==
    (pc = "pages" /\ UsedFonts # {}) =>
        \E f \in UsedFonts :
            /\ body_size = font_map[f]
            /\ \A g \in UsedFonts \ {f} :
                   \/ CharsOfFont(g) < CharsOfFont(f)
                   \/ CharsOfFont(g) = CharsOfFont(f) /\ FirstNodeOf(f) < FirstNodeOf(g)

\* C10: among the fonts that carry text, a font of a size larger than the
\* body size has the level 1 + (number of distinct larger sizes), fonts of
\* one size have one role, and every other font is Body.
C10_LevelsBySizeRank ==
    pc = "pages" =>
        /\ DOMAIN role_map = UsedFonts
        /\ \A f \in UsedFonts :
               IF font_map[f] <= body_size
               THEN role_map[f] = Body
               ELSE role_map[f] = 1 + Cardinality({ s \in UsedSizes : s > font_map[f] })
        /\ \A f \in UsedFonts : \A g \in UsedFonts :
               font_map[f] = font_map[g] => role_map[f] = role_map[g]
        /\ { role_map[f] : f \in UsedFonts } \ {Body} = 1..HeaderLevelCount

\* C10 witness: three sizes in use, the smallest one the body size.
C10_Witness ==
    /\ pc = "pages"
    /\ DOMAIN role_map = {"f1", "f2", "f4"}
    /\ role_map["f1"] = Body /\ role_map["f2"] = 2 /\ role_map["f4"] = 1

----------------------------------------------------------------------------
(* Claims about the order of the rows, unknown fonts and empty pages *)

\* The lines a row was made of: the lines of its text, or for a row without
\* text the lines of its deepest header.
RowLines(r) ==
    IF r.Text # << >> THEN Range(r.Text)
    ELSE IF DOMAIN r.headers = {} THEN {}
         ELSE Range(r.headers[LastOf(DOMAIN r.headers)])

\* C17: in the output sequence the page numbers of the rows are
\* non-decreasing, and the rows appear in the order of the lines that
\* produced them.
C17_RowsInPageAndLineOrder ==
    \A a, b \in DOMAIN EmittedRows :
        a < b =>
            /\ EmittedRows[a].PageNo <= EmittedRows[b].PageNo
            /\ \A x \in RowLines(EmittedRows[a]), y \in RowLines(EmittedRows[b]) : x < y

C17_Witness ==
    /\ pc = "done"
    /\ Len(all_rows) = 3
    /\ all_rows[1].PageNo = 1 /\ all_rows[2].PageNo = 1 /\ all_rows[3].PageNo = 2
    /\ \A k \in 1..3 : RowLines(all_rows[k]) # {}

\* The texts held as header text anywhere: the context, the header being
\* built, the header columns of the rows.
HeaderTextLines ==
    UNION ( { Range(headers[l]) : l \in DOMAIN headers }
            \cup { Range(Join(header_buffer)) }
            \cup UNION { { Range(EmittedRows[k].headers[l]) : l \in DOMAIN EmittedRows[k].headers } :
                          k \in DOMAIN EmittedRows } )

\* C18: a line whose font is absent from the role map is Body: it takes the
\* body branch, its text is never header text, and its text is in the body
\* buffer or in the text of a row.
C18_UnknownFontIsBody ==
    \A n \in DOMAIN trace :
        trace[n].font \notin DOMAIN role_map =>
            /\ trace[n].role = Body
            /\ trace[n].branch = "body"
            /\ n \notin HeaderTextLines
            /\ \/ n \in Range(Join(body_buffer))
               \/ \E k \in DOMAIN EmittedRows : n \in Range(EmittedRows[k].Text)

C18_Witness ==
    /\ pc = "done"
    /\ \E n \in DOMAIN trace :
           /\ n > 1
           /\ trace[n].font \notin DOMAIN role_map
           /\ IsHeaderLine(n - 1)
           /\ trace[n - 1].page = trace[n].page
           /\ \E k \in DOMAIN all_rows :
                  n \in Range(all_rows[k].Text) /\ DOMAIN all_rows[k].headers # {}

\* C19: a page without lines yields no row and leaves the level-to-text map
\* of the context as it was.
C19_EmptyPageYieldsNothing ==
    [][ (pc = "lines" /\ i = 0 /\ pc' = "pages")
            => (all_rows' = all_rows /\ headers' = headers) ]_vars

C19_Witness ==
    /\ pc = "pages"
    /\ page_num = 2
    /\ LinesOfPage(2) = {}
    /\ headers # EmptyMap
    /\ all_rows # << >>

----------------------------------------------------------------------------
(* Claims about failures and about the order of the pipeline *)

\* An exception leaves main().
Propagated == pc = "raised"

\* The document could not be read as a whole.
StructuralFailure == pc = "returned"

\* C21: a structural failure is propagated to the caller, and nothing else
\* is: a run that met no structural failure ends with its rows returned.
C21_OnlyStructuralFailurePropagates ==
    /\ StructuralFailure => Propagated
    /\ Propagated => StructuralFailure

\* The rows of the page just processed are the last rows collected.
RowsCollected ==
    /\ Len(rows) <= Len(all_rows)
    /\ SubSeq(all_rows, Len(all_rows) - Len(rows) + 1, Len(all_rows)) = rows

\* C22: the role map is built from all the fragments before the first page
\* is processed and never changes afterwards; the pages are processed in
\* page order, a page starting only when the page before it has been
\* processed to its end and its rows collected.
C22_ClassifyThenPagesInOrder ==
    [][ /\ (page_num' # page_num =>
               /\ pc = "pages"
               /\ role_map = generate_global_role_map(frags)
               /\ page_num' = page_num + 1
               /\ body_buffer = << >> /\ header_buffer = << >>
               /\ RowsCollected)
        /\ (trace' # trace =>
               /\ page_num >= 1
               /\ role_map = generate_global_role_map(frags)
               /\ trace'[Len(trace')].page = page_num)
        /\ (role_map' # role_map => page_num = 0 /\ trace = << >>) ]_vars

C22_Witness ==
    /\ pc = "lines"
    /\ page_num = 2
    /\ role_map # EmptyMap
    /\ LinesOfPage(1) # {} /\ LinesOfPage(2) # {}
    /\ all_rows # << >>

C24_RowsAreImmutableSnapshots ==
    [][ /\ Len(EmittedRows) <= Len(EmittedRows')
        /\ \A k \in DOMAIN EmittedRows : EmittedRows'[k] = EmittedRows[k]
        /\ \A k \in (Len(EmittedRows) + 1)..Len(EmittedRows') :
               /\ EmittedRows'[k].headers = headers'
               /\ EmittedRows'[k].PageNo = page_num' ]_vars

\* A row emitted under one header is still the same after the context has
\* moved on to another header and another page.
C24_Witness ==
    /\ page_num = 2
    /\ Len(all_rows) >= 1
    /\ all_rows[1].PageNo = 1
    /\ all_rows[1].headers # EmptyMap
    /\ headers # all_rows[1].headers

\* The last three lines of the page are a header line and two body lines,
\* the second body line after a paragraph-break gap.
HeaderThenTwoParagraphs(n) ==
    /\ n \in DOMAIN trace /\ n + 2 = Len(trace)
    /\ IsHeaderLine(n) /\ ~IsHeaderLine(n + 1) /\ ~IsHeaderLine(n + 2)
    /\ is_paragraph_break(trace[n + 2].gap, font_size_of(trace[n + 2].font))

\* The row carries, at the level of header line n, a header text ending with
\* the text of line n.
CarriesHeader(r, n) ==
    /\ trace[n].role \in DOMAIN r.headers
    /\ r.headers[trace[n].role] # << >>
    /\ r.headers[trace[n].role][Len(r.headers[trace[n].role])] = n

\* C25: a header line followed on the same page by two body lines separated
\* by a paragraph-break gap yields exactly two rows, in order, each carrying
\* the header text at its level and one of the body lines as its text, and no
\* row with empty text for that header.
C25_HeaderThenTwoParagraphsGivesTwoRows ==
    pc = "paged" =>
        \A n \in DOMAIN trace :
            HeaderThenTwoParagraphs(n) =>
                LET mine == { k \in DOMAIN all_rows : CarriesHeader(all_rows[k], n) }
                IN  /\ Len(all_rows) >= 2
                    /\ mine = { Len(all_rows) - 1, Len(all_rows) }
                    /\ all_rows[Len(all_rows) - 1].Text = << n + 1 >>
                    /\ all_rows[Len(all_rows)].Text = << n + 2 >>

\* The line before line n reached within 80 of the right edge of the page.
PrevReachedRightEdge(n) ==
    \A k \in DOMAIN page_lines : page_lines[n - 1].right >= page_lines[k].right - 80

CleanupRows == SubSeq(rows', Len(rows) + 1, Len(rows'))

\* C27: when parse_page_to_data_rows returns, header_buffer and body_buffer
\* are empty; the header still being accumulated has been written into the
\* context at its level; the pending body text has been emitted as a row
\* that carries the context after that write; the orphan check has run after
\* both: a row with empty text follows exactly when a header is active that
\* has had no body content, the body just emitted included.
C27_EndOfPageFlushesBuffers ==
    [][ (pc = "lines" /\ pc' = "pages") =>
          /\ header_buffer' = << >> /\ body_buffer' = << >>
          /\ header_buffer # << >> =>
                 /\ active_header_role \in DOMAIN headers'
                 /\ headers'[active_header_role] = Join(header_buffer)
          /\ CleanupRows =
                 (IF body_buffer # << >>
                  THEN << [PageNo |-> page_num, Text |-> Join(body_buffer), headers |-> headers'] >>
                  ELSE << >>)
                 \o (IF /\ active_header_role # NoRole /\ ~header_has_body_content
                        /\ body_buffer = << >>
                     THEN << [PageNo |-> page_num, Text |-> << >>, headers |-> headers'] >>
                     ELSE << >>)
          /\ RowsCollected' ]_vars

C27_Witness ==
    /\ pc = "pages"
    /\ page_num = 1
    /\ Len(trace) = 3
    /\ trace[3].branch = "cont"
    /\ headers[trace[3].role][Len(headers[trace[3].role])] = 3
    /\ header_buffer = << >> /\ body_buffer = << >>
    /\ \E k \in DOMAIN all_rows : all_rows[k].Text # << >>

\* The texts of the rows `rs`, one after the other.
RECURSIVE TextOfRows(_)
TextOfRows(rs) ==
    IF rs = << >> THEN << >> ELSE Head(rs).Text \o TextOfRows(Tail(rs))

\* The body lines read so far, in the order they were read.
BodyLinesRead ==
    SelectSeq([n \in 1..Len(trace) |-> n], LAMBDA n : trace[n].role = Body)

\* C28: body text is conserved: the texts of the rows, followed by the
\* paragraph still buffered, are exactly the body lines read so far, each
\* once and in their line order, and every body line in a row is in a row of
\* the page it was read on.
C28_BodyTextConserved ==
    /\ TextOfRows(EmittedRows) \o Join(body_buffer) = BodyLinesRead
    /\ \A k \in DOMAIN EmittedRows :
           \A n \in Range(EmittedRows[k].Text) : trace[n].page = EmittedRows[k].PageNo
    /\ pc \in {"pages", "done"} => body_buffer = << >>

C28_Witness ==
    /\ pc = "done"
    /\ Len(trace) = 3
    /\ \A n \in 1..3 : trace[n].role = Body
    /\ trace[2].page = 1 /\ trace[3].page = 2
    /\ Len(all_rows) = 3
    /\ \A k \in 1..3 : all_rows[k].Text = << k >>

\* C29: in parse_page_to_data_rows of pdf_parser_generalised.py, after each
\* line has been processed at most one of header_buffer and body_buffer is
\* non-empty: after a header line no body text is pending, after a body line
\* no header text is pending.
C29_AtMostOneBufferPending ==
    (pc = "page" /\ trace # << >>) =>
        /\ header_buffer = << >> \/ body_buffer = << >>
        /\ trace[Len(trace)].role # Body => body_buffer = << >> /\ header_buffer # << >>
        /\ trace[Len(trace)].role = Body => header_buffer = << >> /\ body_buffer # << >>

C29_Witness ==
    /\ pc = "page"
    /\ Len(trace) = 4
    /\ trace[1].branch = "new" /\ trace[2].branch = "body"
    /\ trace[3].branch = "new" /\ trace[4].branch = "cont"
    /\ trace[1].role = trace[3].role
    /\ header_buffer = << << 3 >>, << 4 >> >>
    /\ body_buffer = << >>
    /\ Len(rows) = 1 /\ rows[1].Text = << 2 >>

----------------------------------------------------------------------------
(* Claims about extract_text_lines and calculate_dynamic_y_tolerance *)

\* The fragments the sweep works on.
UsableFrags == usable_fragments(page_nodes)

\* The tops of the fragments of a line.
MemberTops(line) == { line.fragments[k].top : k \in DOMAIN line.fragments }

\* The fragment ids of a line.
MemberIds(line) == { line.fragments[k].id : k \in DOMAIN line.fragments }

\* The input is not already in top-to-bottom order.
InputOutOfOrder ==
    \E a, b \in DOMAIN UsableFrags : a < b /\ UsableFrags[a].top > UsableFrags[b].top

\* C11: for every line produced by extract_text_lines, line.top is the
\* minimum top of its member fragments and every member fragment satisfies
\* |fragment.top - line.top| <= tolerance.
C11_LineTopIsMinimumAndMembersWithinTolerance ==
    pc = "extracted" =>
        \A k \in DOMAIN lines :
            LET tops == MemberTops(lines[k])
            IN  /\ lines[k].top \in tops
                /\ \A t \in tops : lines[k].top <= t /\ Abs(t - lines[k].top) <= y_tol

C11_Witness ==
    /\ pc = "extracted"
    /\ InputOutOfOrder
    /\ Len(lines) >= 2
    /\ \E k \in DOMAIN lines : Cardinality(MemberTops(lines[k])) >= 2

\* C12 as stated: any two fragments whose tops differ by exactly the
\* tolerance are in one line, and any two whose tops differ by tolerance + 1
\* are in different lines.
C12_AnyTwoAtToleranceMerge ==
    pc = "extracted" =>
        LET U == UsableFrags
        IN  \A a, b \in DOMAIN U :
                LET same == \E k \in DOMAIN lines : {U[a].id, U[b].id} \subseteq MemberIds(lines[k])
                    diff == Abs(U[a].top - U[b].top)
                IN  /\ diff = y_tol => same
                    /\ diff = y_tol + 1 => ~same

\* C12 amended: the tolerance is measured from the top of the line: a
\* fragment whose top is exactly tolerance below the top of a line is in that
\* line, and two fragments whose tops differ by tolerance + 1 are in
\* different lines.
C12_AtToleranceOfLineTopMerges ==
    pc = "extracted" =>
        LET U == UsableFrags
        IN  /\ \A k \in DOMAIN lines : \A a \in DOMAIN U :
                   U[a].top - lines[k].top = y_tol => U[a].id \in MemberIds(lines[k])
            /\ \A a, b \in DOMAIN U :
                   Abs(U[a].top - U[b].top) = y_tol + 1
                       => ~ \E k \in DOMAIN lines : {U[a].id, U[b].id} \subseteq MemberIds(lines[k])

C12_Witness ==
    /\ pc = "extracted"
    /\ \E k \in DOMAIN lines : \E t \in MemberTops(lines[k]) : t - lines[k].top = y_tol
    /\ \E a, b \in DOMAIN UsableFrags : UsableFrags[a].top - UsableFrags[b].top = y_tol + 1

\* C13: the top of each line returned by extract_text_lines is strictly
\* greater than the top of the line before it.
C13_LineTopsStrictlyIncrease ==
    pc = "extracted" =>
        \A k \in 1..(Len(lines) - 1) : lines[k].top < lines[k + 1].top

C13_Witness ==
    /\ pc = "extracted"
    /\ InputOutOfOrder
    /\ Len(lines) >= 2

\* C14 as stated: whenever at least one jitter sample exists, the tolerance
\* lies in [2, 0.3 x dominant height].
C14_ToleranceWithinTwoAndThreeTenths ==
    (pc = "tolerance" /\ jitter(UsableFrags, dom) # << >>) =>
        2 <= y_tol /\ 10 * y_tol <= 3 * dom

\* C14 amended: whenever at least one jitter sample exists, the tolerance is
\* at least 2, and it exceeds 0.3 x dominant height only when it is 2 (the
\* lower clamp wins when 0.3 x dominant height is below 2).
C14_ToleranceClamped ==
    (pc = "tolerance" /\ jitter(UsableFrags, dom) # << >>) =>
        2 <= y_tol /\ (y_tol = 2 \/ 10 * y_tol <= 3 * dom)

C14_Witness ==
    /\ pc = "tolerance"
    /\ Len(jitter(UsableFrags, dom)) >= 2
    /\ y_tol > 2
    /\ mean_plus_two_stdev(jitter(UsableFrags, dom)) > y_tol

\* C15 as stated: with fewer than 2 fragments the tolerance is 3, whatever
\* the fragment's height.
C15_FewerThanTwoGivesFallback ==
    (pc = "tolerance" /\ Len(UsableFrags) < 2) => y_tol = 3

\* C15 amended: with no fragment the tolerance is 3; with exactly one
\* fragment it is a tenth of the fragment's height, rounded down, and at
\* least 2.
C15_NoFragmentGivesFallback ==
    pc = "tolerance" =>
        LET U == UsableFrags
        IN  /\ Len(U) = 0 => y_tol = 3
            /\ Len(U) = 1 =>
                   /\ y_tol >= 2
                   /\ y_tol = 2 \/ 10 * y_tol <= U[1].height
                   /\ 10 * (y_tol + 1) > U[1].height

C15_Witness ==
    /\ pc = "tolerance"
    /\ Len(UsableFrags) = 1
    /\ y_tol = 4

\* The heights of the largest count.
ModesOf(frs) ==
    LET count(h) == Cardinality({ k \in DOMAIN frs : frs[k].height = h })
    IN  { frs[k].height : k \in { j \in DOMAIN frs :
                                    \A m \in DOMAIN frs : count(frs[m].height) <= count(frs[j].height) } }

\* C16: the dominant height is the mode of the fragment heights, and when
\* several heights tie for the highest count it is the smallest of them,
\* whatever the order of the fragments.
C16_DominantHeightIsSmallestMode ==
    (pc = "tolerance" /\ UsableFrags # << >>) =>
        /\ dom \in ModesOf(UsableFrags)
        /\ \A h \in ModesOf(UsableFrags) : dom <= h

\* The nodes of the page that have their geometry.
WellFormedNodes == SelectSeq2(page_nodes, { n \in Range(page_nodes) : n.geom })

\* C20: a malformed fragment is skipped and the processing goes on: the
\* call does not raise, and every usable fragment among the remaining ones
\* is a member of a returned line.
C20_MalformedFragmentSkipped ==
    pc \in {"extracted", "raised"} =>
        /\ pc = "extracted"
        /\ \A k \in DOMAIN page_nodes :
               (page_nodes[k].geom /\ page_nodes[k].text # "")
                   => \E l \in DOMAIN lines : k \in MemberIds(lines[l])

\* The places, line and position in the line, where the fragment of the
\* node k is found in the returned lines.
PlacesOf(k) ==
    UNION { { << l, m >> : m \in { m \in DOMAIN lines[l].fragments : lines[l].fragments[m].id = k } } :
            l \in DOMAIN lines }

\* C30: extract_text_lines partitions the page's non-empty fragments: every
\* fragment with non-empty text is, as read from its node, in exactly one
\* returned line and once in it, no returned line is without fragments, and a
\* fragment with empty text is in no line.
C30_LinesPartitionFragments ==
    pc = "extracted" =>
        /\ \A k \in DOMAIN page_nodes :
               Cardinality(PlacesOf(k)) = IF page_nodes[k].text # "" THEN 1 ELSE 0
        /\ \A l \in DOMAIN lines :
               /\ lines[l].fragments # << >>
               /\ \A m \in DOMAIN lines[l].fragments :
                      LET f == lines[l].fragments[m]
                      IN  f.id \in DOMAIN page_nodes /\ f = from_node(page_nodes[f.id], f.id)

C30_Witness ==
    /\ pc = "extracted"
    /\ Len(page_nodes) = 3
    /\ page_nodes[2] = EmptyNode
    /\ Len(lines) = 2
    /\ MemberIds(lines[1]) = {3}
    /\ MemberIds(lines[2]) = {1}

====
